---- MODULE Spec2Model ----
(***************************************************************************)
(* A model of the /analyze pipeline of loops_case: the catalog and context *)
(* adapters (src/src/context.py), the context composer, the model gateway  *)
(* query_gemini (src/src/vertex_client.py) and the request handler with    *)
(* its response validation (src/src/main.py).                              *)
(*                                                                         *)
(* Python values are modelled as follows.  A dict is a function whose      *)
(* domain is its set of keys; an insertion-ordered dict whose order is     *)
(* observable (contexts) is a sequence of [id, doc] entries.  A JSON value *)
(* is a record tagged by its field t.  A text is a sequence of tokens.     *)
(***************************************************************************)
EXTENDS Naturals, Integers, Sequences, FiniteSets, TLC

VARIABLES
    pc,             \* position of the request handler / of the gateway call
    request,        \* AnalyzeRequest: [sku, context_ids]
    store,          \* the content store: [catalog_ok, image, material]
    product_specs,  \* analyze's local product_specs
    image_gcs_uri,  \* analyze's local image_gcs_uri
    contexts,       \* analyze's local contexts (ordered dict)
    context_card,   \* analyze's local context_card
    reply,          \* what generate_content returned to query_gemini
    model_response, \* what query_gemini gave back: [raised, ret]
    response,       \* what the client receives: [status, kind, body]
    trace,          \* stages executed so far, in order
    failed_at,      \* Len(trace) when a stage failed, 0 while none has
    fetched,        \* context ids handed to load_context_file, in order
    calls           \* number of generate_content invocations

vars == <<pc, request, store, product_specs, image_gcs_uri, contexts,
          context_card, reply, model_response, response, trace, failed_at,
          fetched, calls>>

(***************************************************************************)
(* Bounds of the model.                                                    *)
(***************************************************************************)
MaxCtx == 3
MaxRaw == 7

(***************************************************************************)
(* JSON / Python values.                                                   *)
(***************************************************************************)
Str(s) == [t |-> "str", s |-> s]
Num(n) == [t |-> "num", n |-> n]
Arr(a) == [t |-> "arr", a |-> a]
Obj(m) == [t |-> "obj", m |-> m]
Null == [t |-> "null"]
\* float('nan'): what pandas.read_csv yields for an empty cell
NaN == [t |-> "float_nan"]
EmptyDict == <<>>

IsStr(v) == v.t = "str"
IsObj(v) == v.t = "obj"
IsArr(v) == v.t = "arr"

\* d without key k (a JSON document that lacks a field)
Without(d, k) == [x \in DOMAIN d \ {k} |-> d[x]]
\* d[k] = v on a dict: the key is added or overwritten
SetItem(d, k, v) == [x \in DOMAIN d \cup {k} |-> IF x = k THEN v ELSE d[x]]

(***************************************************************************)
(* The content store.  The catalog holds one SKU; its image_gcs_uri cell   *)
(* and its material cell vary.  Context documents are fixed.               *)
(***************************************************************************)
ImageUri == Str("gs://bucket/sku1.jpg")
\* "absent": the catalog has no image_gcs_uri column
ImageCells == {"gs_uri", "absent", "empty", "none", "nan"}
MaterialCells == {"leather", "nan"}

CellValue(c) ==
    CASE c = "empty" -> Str("")
      [] c = "none" -> Null
      [] c = "nan" -> NaN
      [] c = "gs_uri" -> ImageUri
      [] c = "leather" -> Str("leather")

CatalogRow(image, material) ==
    LET base == [color |-> Str("red"), material |-> CellValue(material)]
    IN  IF image = "absent" THEN base
        ELSE SetItem(base, "image_gcs_uri", CellValue(image))

\* df.set_index('sku').to_dict('index')
Catalog(st) == [k \in {"SKU1"} |-> CatalogRow(st.image, st.material)]

Skus == {"SKU1", "SKU9"}

PyNone == "<None>"

DocA == [brand_voice |-> "X",
         rules |-> << [id |-> "R-1", text |-> "a", mandatory |-> TRUE],
                      [id |-> "R-2", text |-> "b"] >>]
DocB == [rules |-> << [id |-> "R-1", text |-> "c", mandatory |-> FALSE, note |-> "n"],
                      [text |-> "d"] >>]
DocC == [brand_voice |-> "Y"]

\* the blobs context/<id>.json that exist in the bucket
StoredDocs == [A |-> DocA, B |-> DocB, C |-> DocC]
ContextIds == {"A", "B", "C", "missing"}

RECURSIVE SeqsUpTo(_, _)
SeqsUpTo(S, n) ==
    IF n = 0 THEN {<<>>}
    ELSE LET shorter == SeqsUpTo(S, n - 1)
         IN  shorter \cup {Append(s, x) : s \in {q \in shorter : Len(q) = n - 1}, x \in S}

(***************************************************************************)
(* context.py                                                              *)
(***************************************************************************)
\* load_spec_catalog: the catalog, or FileNotFoundError
load_spec_catalog(st) ==
    IF st.catalog_ok THEN [raised |-> FALSE, value |-> Catalog(st)]
    ELSE [raised |-> TRUE, exc |-> "FileNotFoundError"]

\* get_sku_specs: the row of the SKU, or ValueError
get_sku_specs(sku, spec_catalog) ==
    IF sku \notin DOMAIN spec_catalog
    THEN [raised |-> TRUE, exc |-> "ValueError"]
    ELSE [raised |-> FALSE, value |-> spec_catalog[sku]]

\* load_context_file: the parsed document, or FileNotFoundError
load_context_file(context_id) ==
    IF context_id \in DOMAIN StoredDocs
    THEN [raised |-> FALSE, value |-> StoredDocs[context_id]]
    ELSE [raised |-> TRUE, exc |-> "FileNotFoundError"]

\* pd.notna(v): False for None and NaN
notna(v) == v.t \notin {"null", "float_nan"}

\* Python truthiness of a cell value: None and "" are falsy, NaN is truthy
Truthy(v) ==
    CASE v.t = "null" -> FALSE
      [] v.t = "str" -> v.s # ""
      [] OTHER -> TRUE

\* dict.get(key) with the default None
DictGet(d, k) == IF k \in DOMAIN d THEN d[k] ELSE Null

\* position of key id in an ordered dict, 0 when absent
KeyIndex(od, id) ==
    IF \E i \in 1..Len(od) : od[i].id = id
    THEN CHOOSE i \in 1..Len(od) : od[i].id = id
    ELSE 0

\* od[id] = doc on an insertion-ordered dict: a key already present keeps its
\* position and gets the new value
OrderedDictSet(od, id, doc) ==
    IF KeyIndex(od, id) = 0 THEN Append(od, [id |-> id, doc |-> doc])
    ELSE [od EXCEPT ![KeyIndex(od, id)].doc = doc]

\* the citable form of one rule: rule.get("id"), rule.get("text"),
\* rule.get("mandatory", False)
CitableRule(rule) ==
    [id |-> IF "id" \in DOMAIN rule THEN rule.id ELSE PyNone,
     text |-> IF "text" \in DOMAIN rule THEN rule.text ELSE PyNone,
     mandatory |-> IF "mandatory" \in DOMAIN rule THEN rule.mandatory ELSE FALSE]

CitableRules(content) ==
    IF "rules" \in DOMAIN content
    THEN [i \in 1..Len(content.rules) |-> CitableRule(content.rules[i])]
    ELSE <<>>

\* ComposeStep, were rules deduplicated by id
ComposeStep_DedupRuleIds(card, content) ==
    LET voiced == IF "brand_voice" \in DOMAIN content
                  THEN SetItem(card, "brand_voice", content.brand_voice)
                  ELSE card
        fresh == SelectSeq(CitableRules(content),
                           LAMBDA r : ~\E i \in 1..Len(card.rules) : card.rules[i].id = r.id)
    IN  [voiced EXCEPT !.rules = @ \o fresh]

\* ComposeStep, were a brand_voice set only while the card has none
ComposeStep_FirstVoiceWins(card, content) ==
    LET voiced == IF "brand_voice" \in DOMAIN content /\ "brand_voice" \notin DOMAIN card
                  THEN SetItem(card, "brand_voice", content.brand_voice)
                  ELSE card
    IN  [voiced EXCEPT !.rules = @ \o CitableRules(content)]

\* one iteration of the loop over contexts.items()
ComposeStep(card, content) ==
    LET voiced == IF "brand_voice" \in DOMAIN content
                  THEN SetItem(card, "brand_voice", content.brand_voice)
                  ELSE card
    IN  [voiced EXCEPT !.rules = @ \o CitableRules(content)]

RECURSIVE ComposeLoop(_, _)
ComposeLoop(card, od) ==
    IF od = <<>> THEN card
    ELSE ComposeLoop(ComposeStep(card, Head(od).doc), Tail(od))

compose_context_card(specs, od) ==
    ComposeLoop([product_attributes |-> [k \in {x \in DOMAIN specs : notna(specs[x])} |-> specs[k]],
                 rules |-> <<>>],
                od)

(***************************************************************************)
(* The model backend's reply and the texts it can carry.  A text is a      *)
(* sequence of tokens: FJ is ```json, F is ```, NL is a newline, V is the  *)
(* JSON text of the reply's value val (on one line, as json texts hold no  *)
(* raw newline inside strings), X is prose that is not JSON.               *)
(***************************************************************************)
Tokens == {"FJ", "F", "NL", "V"}
FinishReasons == {"STOP", "SAFETY", "MAX_TOKENS"}

Reply(n, fr, sr, tx, v) ==
    [candidates |-> n, finish_reason |-> fr, safety_ratings |-> sr, text |-> tx, val |-> v]

\* a model output that satisfies the AnalyzeResponse schema
FullAttr == Obj([value |-> Str("red"), source |-> Str("image")])
FullGrounding == [citations |-> Arr(<<Str("R-1")>>), visual_refs |-> Arr(<<>>)]
FullStructured ==
    [attributes |-> Obj([color |-> FullAttr]),
     compliance |-> Obj([R1 |-> Obj([pass |-> Str("false")])])]
FullOutput ==
    [answer |-> Str("ok"), grounding |-> Obj(FullGrounding), structured |-> Obj(FullStructured)]

WithAttr(a) ==
    SetItem(FullOutput, "structured", Obj(SetItem(FullStructured, "attributes", Obj([color |-> a]))))

\* FullOutput with one required field left out
MissingField ==
    { Without(FullOutput, "answer"),
      Without(FullOutput, "grounding"),
      Without(FullOutput, "structured"),
      SetItem(FullOutput, "grounding", Obj(Without(FullGrounding, "citations"))),
      SetItem(FullOutput, "grounding", Obj(Without(FullGrounding, "visual_refs"))),
      SetItem(FullOutput, "structured", Obj(Without(FullStructured, "attributes"))),
      SetItem(FullOutput, "structured", Obj(Without(FullStructured, "compliance"))),
      WithAttr(Obj(Without(FullAttr.m, "value"))),
      WithAttr(Obj(Without(FullAttr.m, "source"))) }

\* schema-complete outputs: with and without diagnostics of the model's own,
\* with a key outside the schema, with an attribute source outside image|spec
CompleteOutputs ==
    { FullOutput,
      SetItem(FullOutput, "diagnostics", Obj([tokens |-> Num(5)])),
      SetItem(FullOutput, "diagnostics",
              Obj([tokens |-> Num(7), latency |-> Num(9900), model |-> Str("other")])),
      SetItem(FullOutput, "note", Str("extra")),
      WithAttr(Obj([value |-> Str("red"), source |-> Str("spec")])),
      WithAttr(Obj([value |-> Str("red"), source |-> Str("guess")])),
      SetItem(FullOutput, "structured", Obj(SetItem(FullStructured, "attributes", Obj(EmptyDict)))) }

OutputObjects ==
    CompleteOutputs \cup MissingField
        \cup {EmptyDict, SetItem(FullOutput, "error", Str("refused"))}

\* JSON values that are not objects
NonObjects == {Arr(<<Str("ok")>>), Str("ok"), Num(1), Null}

ModelValues == {Obj(m) : m \in OutputObjects} \cup NonObjects

Fenced(body) == <<"FJ", "NL">> \o body \o <<"NL", "F">>

(***************************************************************************)
(* vertex_client.py                                                        *)
(***************************************************************************)
model_name == "gemini-2.5-flash"

\* raw_text.strip() == "": nothing but whitespace
IsBlank(tx) == \A i \in 1..Len(tx) : tx[i] = "NL"

\* an opening ```json\n starts at i
OpensAt(tx, i) == i + 1 <= Len(tx) /\ tx[i] = "FJ" /\ tx[i + 1] = "NL"
\* a closing \n``` starts at j (the three backticks may begin another ```json)
ClosesAt(tx, j) == j + 1 <= Len(tx) /\ tx[j] = "NL" /\ tx[j + 1] \in {"F", "FJ"}

\* re.search(r"```json\n(.*)\n```", raw_text, re.DOTALL): the leftmost opening
\* that has a closing after its newline, and, .* being greedy, the last closing
re_search(tx) ==
    LET starts == {i \in 1..Len(tx) :
                      OpensAt(tx, i) /\ \E j \in (i + 2)..Len(tx) : ClosesAt(tx, j)}
    IN  IF starts = {} THEN [found |-> FALSE]
        ELSE LET i == CHOOSE a \in starts : \A b \in starts : a <= b
                 ends == {j \in (i + 2)..Len(tx) : ClosesAt(tx, j)}
                 j == CHOOSE a \in ends : \A b \in ends : b <= a
             IN  [found |-> TRUE, group1 |-> SubSeq(tx, i + 2, j - 1)]

RECURSIVE LStrip(_)
LStrip(tx) == IF tx # <<>> /\ Head(tx) = "NL" THEN LStrip(Tail(tx)) ELSE tx
RECURSIVE RStrip(_)
RStrip(tx) ==
    IF tx # <<>> /\ tx[Len(tx)] = "NL" THEN RStrip(SubSeq(tx, 1, Len(tx) - 1)) ELSE tx

\* json.loads: one JSON value between optional whitespace, else JSONDecodeError
json_loads(tx, val) ==
    IF RStrip(LStrip(tx)) = <<"V">> THEN [raised |-> FALSE, value |-> val]
    ELSE [raised |-> TRUE, exc |-> "JSONDecodeError"]

Returned(d) == [raised |-> FALSE, exc |-> "", called |-> TRUE, ret |-> d]
Raised(e, called) == [raised |-> TRUE, exc |-> e, called |-> called, ret |-> EmptyDict]

\* ParseReply, were the finish reason not looked at
ParseReply_NoFinishCheck(rep) ==
    IF rep.candidates = 0
    THEN Returned([error |-> Str("No candidates returned from model."),
                   details |-> Str("The model response was empty.")])
    ELSE IF IsBlank(rep.text)
    THEN Returned([error |-> Str("Model returned an empty text response."),
                   details |-> Str("This could be due to safety filters or a malformed prompt.")])
    ELSE LET json_match == re_search(rep.text)
             json_str == IF json_match.found THEN json_match.group1 ELSE rep.text
             parsed == json_loads(json_str, rep.val)
         IN  IF parsed.raised
             THEN Returned([error |-> Str("Failed to parse model response."),
                            details |-> [t |-> "fstr", parts |-> <<parsed.exc>>],
                            raw_text |-> [t |-> "text", toks |-> rep.text]])
             ELSE IF ~IsObj(parsed.value)
             THEN Raised("TypeError", TRUE)
             ELSE Returned(SetItem(parsed.value.m, "diagnostics",
                                   Obj([model |-> Str(model_name)])))

\* the steps of query_gemini after generate_content has answered
ParseReply(rep) ==
    IF rep.candidates = 0
    THEN Returned([error |-> Str("No candidates returned from model."),
                   details |-> Str("The model response was empty.")])
    ELSE IF rep.finish_reason # "STOP"
    THEN Returned([error |-> Str("Model generation stopped prematurely."),
                   details |-> [t |-> "fstr", parts |-> <<"Finish Reason: ", rep.finish_reason>>],
                   safety_ratings |-> Str(rep.safety_ratings)])
    ELSE IF IsBlank(rep.text)
    THEN Returned([error |-> Str("Model returned an empty text response."),
                   details |-> Str("This could be due to safety filters or a malformed prompt.")])
    ELSE LET json_match == re_search(rep.text)
             json_str == IF json_match.found THEN json_match.group1 ELSE rep.text
             parsed == json_loads(json_str, rep.val)
         IN  IF parsed.raised
             THEN Returned([error |-> Str("Failed to parse model response."),
                            details |-> [t |-> "fstr", parts |-> <<parsed.exc>>],
                            raw_text |-> [t |-> "text", toks |-> rep.text]])
             \* parsed_response["diagnostics"] = ...: item assignment with a str
             \* key is a TypeError on a list, str, number or None, and the
             \* except clause names only JSONDecodeError and IndexError
             ELSE IF ~IsObj(parsed.value)
             THEN Raised("TypeError", TRUE)
             ELSE Returned(SetItem(parsed.value.m, "diagnostics",
                                   Obj([model |-> Str(model_name)])))

\* query_gemini.  Part.from_uri builds a protobuf string field from the uri and
\* rejects anything that is not a str before the model is called.
query_gemini(image, rep) ==
    IF ~IsStr(image) THEN Raised("TypeError", FALSE)
    ELSE ParseReply(rep)

(***************************************************************************)
(* main.py: the response schema                                            *)
(***************************************************************************)
AllStr(a) == IsArr(a) /\ \A i \in 1..Len(a.a) : IsStr(a.a[i])

\* class Grounding
GroundingOk(v) ==
    IsObj(v) /\ ("citations" \in DOMAIN v.m /\ AllStr(v.m.citations)) /\ ("visual_refs" \in DOMAIN v.m /\ AllStr(v.m.visual_refs))

\* class Attribute: value and source are both plain str fields
AttributeOk(v) == IsObj(v) /\ ("value" \in DOMAIN v.m /\ IsStr(v.m.value)) /\ ("source" \in DOMAIN v.m /\ IsStr(v.m.source))

AttributesOk(v) == IsObj(v) /\ \A k \in DOMAIN v.m : AttributeOk(v.m[k])
ComplianceOk(v) == IsObj(v) /\ \A k \in DOMAIN v.m : IsObj(v.m[k])

\* class Structured
StructuredOk(v) ==
    IsObj(v) /\ ("attributes" \in DOMAIN v.m /\ AttributesOk(v.m.attributes)) /\ ("compliance" \in DOMAIN v.m /\ ComplianceOk(v.m.compliance))

IsNum(v) == v.t = "num"

\* class Diagnostics
DiagnosticsOk(v) ==
    IsObj(v) /\ ("latency" \in DOMAIN v.m /\ IsNum(v.m.latency)) /\ ("model" \in DOMAIN v.m /\ IsStr(v.m.model))
        /\ ("tokens" \in DOMAIN v.m /\ IsNum(v.m.tokens))

\* class AnalyzeResponse: every field is required (Field(...) or no default)
SchemaOk(d) ==
    /\ ("answer" \in DOMAIN d /\ IsStr(d.answer))
    /\ ("grounding" \in DOMAIN d /\ GroundingOk(d.grounding))
    /\ ("structured" \in DOMAIN d /\ StructuredOk(d.structured))
    /\ ("diagnostics" \in DOMAIN d /\ DiagnosticsOk(d.diagnostics))

Keep(d, keys) == [k \in keys |-> d[k]]

\* the AnalyzeResponse built from a dict that satisfies the schema: the declared
\* fields and nothing else
Typed(d) ==
    [answer |-> d.answer,
     grounding |-> Obj(Keep(d.grounding.m, {"citations", "visual_refs"})),
     structured |->
        Obj([attributes |->
                Obj([k \in DOMAIN d.structured.m.attributes.m |->
                        Obj(Keep(d.structured.m.attributes.m[k].m, {"value", "source"}))]),
             compliance |-> d.structured.m.compliance]),
     diagnostics |-> Obj(Keep(d.diagnostics.m, {"latency", "model", "tokens"}))]

\* AnalyzeResponse, were structured.compliance given the default {}
AnalyzeResponse_DefaultCompliance(d) ==
    LET filled == IF "structured" \in DOMAIN d /\ IsObj(d.structured)
                     /\ "compliance" \notin DOMAIN d.structured.m
                  THEN SetItem(d, "structured", Obj(SetItem(d.structured.m, "compliance", Obj(EmptyDict))))
                  ELSE d
    IN  IF SchemaOk(filled) THEN [raised |-> FALSE, value |-> Typed(filled)]
        ELSE [raised |-> TRUE, exc |-> "ValidationError"]

\* AnalyzeResponse(**model_response): the typed response, or ValidationError
AnalyzeResponse(d) ==
    IF SchemaOk(d) THEN [raised |-> FALSE, value |-> Typed(d)]
    ELSE [raised |-> TRUE, exc |-> "ValidationError"]

\* elapsed times time.time() - start_time can measure, in milliseconds
Latencies == {1234, 87}
\* round(latency, 2), in hundredths of a second
Round2(ms) == (ms + 5) \div 10

\* lines 95-100: the diagnostics the handler writes into model_response
WithDiagnostics(d, ms) ==
    LET d1 == IF "diagnostics" \notin DOMAIN d THEN SetItem(d, "diagnostics", Obj(EmptyDict)) ELSE d
        g1 == SetItem(d1.diagnostics.m, "latency", Num(Round2(ms)))
        g2 == IF "tokens" \notin DOMAIN g1 THEN SetItem(g1, "tokens", Num(0)) ELSE g1
    IN  SetItem(d1, "diagnostics", Obj(g2))

(***************************************************************************)
(* main.py: how a run of the handler ends                                  *)
(***************************************************************************)
\* an exception that leaves the handler uncaught: the server answers 500
Uncaught(exc) == [status |-> 500, kind |-> "InternalServerError", body |-> EmptyDict, exc |-> exc]

\* raise HTTPException(status_code=500, detail=...)
HTTPException500(detail) ==
    [status |-> 500, kind |-> "HTTPException", body |-> [detail |-> Str(detail)], exc |-> ""]

\* ReturnValue, were the route declared without a response_model
ReturnValue_NoResponseModel(d) ==
    [status |-> 200, kind |-> IF SchemaOk(d) THEN "AnalyzeResponse" ELSE "dict", body |-> d, exc |-> ""]

\* a value the handler returns: the route declares response_model=AnalyzeResponse,
\* so the value is validated against it; one that fits is sent with status 200,
\* one that does not (the {"error": ...} dicts) is a server error
ReturnValue(d) ==
    IF SchemaOk(d)
    THEN [status |-> 200, kind |-> "AnalyzeResponse", body |-> Typed(d), exc |-> ""]
    ELSE Uncaught("ResponseValidationError")

ErrorDict(msg) == [error |-> Str(msg)]

(***************************************************************************)
(* main.py: analyze, one action per stage of the handler                   *)
(***************************************************************************)
Requests == [sku : Skus, context_ids : SeqsUpTo(ContextIds, MaxCtx)]
Stores == [catalog_ok : BOOLEAN, image : ImageCells, material : MaterialCells]

NoReply == Reply(0, "STOP", "[]", <<>>, Null)
NoResponse == [status |-> 0, kind |-> "none", body |-> EmptyDict, exc |-> ""]
NoReturn == [raised |-> FALSE, exc |-> "", called |-> FALSE, ret |-> EmptyDict]
NoCard == [product_attributes |-> EmptyDict, rules |-> <<>>]

Locals0 ==
    /\ product_specs = EmptyDict
    /\ image_gcs_uri = Null
    /\ contexts = <<>>
    /\ context_card = NoCard
    /\ model_response = NoReturn
    /\ response = NoResponse
    /\ trace = <<>>
    /\ failed_at = 0
    /\ fetched = <<>>
    /\ calls = 0

Init ==
    /\ pc = "catalog"
    /\ request \in Requests
    /\ store \in Stores
    /\ reply = NoReply
    /\ Locals0

\* the handler ends with response r after the stage stage
Finish(stage, r, failed) ==
    /\ pc' = "done"
    /\ response' = r
    /\ trace' = Append(trace, stage)
    /\ failed_at' = IF failed THEN Len(trace) + 1 ELSE 0

\* the handler goes on to next after the stage stage
Continue(stage, next) ==
    /\ pc' = next
    /\ trace' = Append(trace, stage)
    /\ UNCHANGED <<response, failed_at>>

\* line 56: spec_catalog = load_spec_catalog(), outside the try block
LoadCatalog ==
    /\ pc = "catalog"
    /\ IF load_spec_catalog(store).raised
       THEN Finish("catalog", Uncaught(load_spec_catalog(store).exc), TRUE)
       ELSE Continue("catalog", "sku")
    /\ UNCHANGED <<request, store, product_specs, image_gcs_uri, contexts, context_card,
                   reply, model_response, fetched, calls>>

\* line 60: product_specs = get_sku_specs(sku, spec_catalog); ValueError is caught
\* at line 69 and the handler returns {"error": str(e)}
LookupSku ==
    /\ pc = "sku"
    /\ LET r == get_sku_specs(request.sku, load_spec_catalog(store).value)
       IN  IF r.raised
           THEN /\ Finish("sku", ReturnValue(ErrorDict("SKU not found")), TRUE)
                /\ UNCHANGED product_specs
           ELSE /\ Continue("sku", "image")
                /\ product_specs' = r.value
    /\ UNCHANGED <<request, store, image_gcs_uri, contexts, context_card,
                   reply, model_response, fetched, calls>>

\* CheckImage, were the error of line 64 built but not returned
CheckImage_NoReturn ==
    /\ pc = "image"
    /\ image_gcs_uri' = DictGet(product_specs, "image_gcs_uri")
    /\ pc' = "fetch"
    /\ trace' = Append(trace, "image")
    /\ IF ~Truthy(image_gcs_uri')
       THEN /\ response' = ReturnValue(ErrorDict("Image GCS URI not found"))
            /\ failed_at' = Len(trace) + 1
       ELSE UNCHANGED <<response, failed_at>>
    /\ UNCHANGED <<request, store, product_specs, contexts, context_card,
                   reply, model_response, fetched, calls>>

\* lines 61-64: image_gcs_uri = product_specs.get("image_gcs_uri"); if not image_gcs_uri
CheckImage ==
    /\ pc = "image"
    /\ image_gcs_uri' = DictGet(product_specs, "image_gcs_uri")
    /\ IF ~Truthy(image_gcs_uri')
       THEN Finish("image", ReturnValue(ErrorDict("Image GCS URI not found")), TRUE)
       ELSE Continue("image", "fetch")
    /\ UNCHANGED <<request, store, product_specs, contexts, context_card,
                   reply, model_response, fetched, calls>>

\* line 67, one iteration of the dict comprehension
\*   {ctx_id: load_context_file(ctx_id) for ctx_id in request.context_ids}
\* FileNotFoundError is caught at line 69 and the handler returns {"error": str(e)}
FetchContext ==
    /\ pc = "fetch"
    /\ Len(fetched) < Len(request.context_ids)
    /\ LET ctx_id == request.context_ids[Len(fetched) + 1]
           r == load_context_file(ctx_id)
       IN  /\ fetched' = Append(fetched, ctx_id)
           /\ IF r.raised
              THEN /\ Finish("fetch", ReturnValue(ErrorDict("Could not load context")), TRUE)
                   /\ UNCHANGED contexts
              ELSE /\ Continue("fetch", "fetch")
                   /\ contexts' = OrderedDictSet(contexts, ctx_id, r.value)
    /\ UNCHANGED <<request, store, product_specs, image_gcs_uri, context_card,
                   reply, model_response, calls>>

\* line 74: context_card = compose_context_card(product_specs, contexts)
Compose ==
    /\ pc = "fetch"
    /\ Len(fetched) = Len(request.context_ids)
    /\ context_card' = compose_context_card(product_specs, contexts)
    /\ Continue("compose", "model")
    /\ UNCHANGED <<request, store, product_specs, image_gcs_uri, contexts,
                   reply, model_response, fetched, calls>>

\* the replies the model backend can give to a request of the pipeline
SafetyRatings == {"[]", "[DANGEROUS_CONTENT: HIGH]"}
SimpleTexts ==
    {<<"V">>, Fenced(<<"V">>), <<"NL", "V", "NL">>, <<"X">>, <<"V", "X">>, <<"NL">>, <<>>,
     Fenced(<<"V">>) \o <<"NL", "X", "NL", "F", "NL", "X", "NL", "F">>}

PipelineReplies ==
    {NoReply}
        \cup {Reply(1, fr, sr, tx, Obj(FullOutput)) :
                fr \in FinishReasons \ {"STOP"}, sr \in SafetyRatings,
                tx \in {<<"V">>, Fenced(<<"V">>), <<"X">>, <<>>}}
        \cup {Reply(1, "STOP", "[]", tx, v) : tx \in {<<"V">>, Fenced(<<"V">>)}, v \in ModelValues}
        \cup {Reply(1, "STOP", "[]", tx, Obj(FullOutput)) : tx \in SimpleTexts}

\* lines 77-88: model_response = query_gemini(...); an "error" key in what it
\* returns becomes HTTPException(500); an exception it raises is not caught
QueryModel ==
    /\ pc = "model"
    /\ \E rep \in (IF IsStr(image_gcs_uri) THEN PipelineReplies ELSE {NoReply}) :
          LET r == query_gemini(image_gcs_uri, rep)
          IN  /\ reply' = rep
              /\ model_response' = r
              /\ calls' = IF r.called THEN calls + 1 ELSE calls
              /\ IF r.raised
                 THEN Finish("model", Uncaught(r.exc), TRUE)
                 ELSE IF "error" \in DOMAIN r.ret
                 THEN Finish("model", HTTPException500("Model query failed"), TRUE)
                 ELSE Continue("model", "validate")
    /\ UNCHANGED <<request, store, product_specs, image_gcs_uri, contexts, context_card,
                   fetched>>

\* lines 91-113: latency, the diagnostics, AnalyzeResponse(**model_response);
\* ValidationError becomes HTTPException(500)
Validate ==
    /\ pc = "validate"
    /\ \E ms \in Latencies :
          LET d == WithDiagnostics(model_response.ret, ms)
              v == AnalyzeResponse(d)
          IN  /\ model_response' = [model_response EXCEPT !.ret = d]
              /\ IF v.raised
                 THEN Finish("validate", HTTPException500("Model returned an invalid data format"), TRUE)
                 ELSE Finish("validate", ReturnValue(v.value), FALSE)
    /\ UNCHANGED <<request, store, product_specs, image_gcs_uri, contexts, context_card,
                   reply, fetched, calls>>

Next == LoadCatalog \/ LookupSku \/ CheckImage \/ FetchContext \/ Compose \/ QueryModel \/ Validate

Spec == Init /\ [][Next]_vars

(***************************************************************************)
(* query_gemini on its own: every reply with a text of at most MaxRaw      *)
(* tokens, for a well-formed image reference.                              *)
(***************************************************************************)
GatewayReplies ==
    {NoReply}
        \cup {Reply(1, fr, sr, tx, Obj(FullOutput)) :
                fr \in FinishReasons \ {"STOP"}, sr \in SafetyRatings, tx \in SimpleTexts}
        \cup {Reply(1, "STOP", "[]", tx, v) :
                tx \in SeqsUpTo(Tokens, MaxRaw), v \in {Obj(FullOutput), Arr(<<Str("ok")>>)}}
        \cup {Reply(1, "STOP", "[]", tx, v) : tx \in SimpleTexts, v \in ModelValues}

InitGateway ==
    /\ pc = "gateway"
    /\ request = [sku |-> "SKU1", context_ids |-> <<>>]
    /\ store = [catalog_ok |-> TRUE, image |-> "gs_uri", material |-> "leather"]
    /\ reply \in GatewayReplies
    /\ product_specs = CatalogRow("gs_uri", "leather")
    /\ image_gcs_uri = ImageUri
    /\ contexts = <<>>
    /\ context_card = compose_context_card(product_specs, contexts)
    /\ model_response = NoReturn
    /\ response = NoResponse
    /\ trace = <<>>
    /\ failed_at = 0
    /\ fetched = <<>>
    /\ calls = 0

GatewayCall ==
    /\ pc = "gateway"
    /\ pc' = "returned"
    /\ model_response' = query_gemini(image_gcs_uri, reply)
    /\ calls' = IF model_response'.called THEN calls + 1 ELSE calls
    /\ trace' = Append(trace, "model")
    /\ UNCHANGED <<request, store, product_specs, image_gcs_uri, contexts, context_card,
                   reply, response, failed_at, fetched>>

NextGateway == GatewayCall

SpecGateway == InitGateway /\ [][NextGateway]_vars

(***************************************************************************)
(* Properties.                                                             *)
(***************************************************************************)
Ran(stage) == \E i \in 1..Len(trace) : trace[i] = stage
Done == pc = "done"

\* the failures of a request, read off its inputs and the gateway's result
CatalogUnavailable == ~store.catalog_ok
SkuAbsent == request.sku \notin DOMAIN Catalog(store)
NoImageReference == store.image \in {"absent", "empty", "none", "nan"}
ContextNotFound == \E i \in 1..Len(request.context_ids) : request.context_ids[i] \notin DOMAIN StoredDocs
GatewayFailed == Ran("model") /\ (model_response.raised \/ "error" \in DOMAIN model_response.ret)
SchemaViolated == Ran("validate") /\ ~SchemaOk(model_response.ret)
AnyStageFailed ==
    CatalogUnavailable \/ SkuAbsent \/ NoImageReference \/ ContextNotFound
        \/ GatewayFailed \/ SchemaViolated

\* C1: a request in which any stage fails ends with an error and a status other
\* than 200; status 200 comes only with a body that satisfies the whole
\* AnalyzeResponse schema, at the end of a run in which nothing failed.
C1_FailureIsNon200 ==
    Done =>
        /\ AnyStageFailed => response.status # 200 /\ response.kind # "AnalyzeResponse"
        /\ response.status = 200 =>
              /\ response.kind = "AnalyzeResponse"
              /\ SchemaOk(response.body)
              /\ ~AnyStageFailed
              /\ failed_at = 0
        /\ response.status \in {200, 500}

\* C1 witness: the handler returned its {"error": ...} dict for an empty image
\* reference and the client got a 500
C1_Witness ==
    /\ Done
    /\ store.image = "empty"
    /\ trace = <<"catalog", "sku", "image">>
    /\ response.status = 500
    /\ response.exc = "ResponseValidationError"

\* the documents' rules, in citable form, concatenated over a list of ids
RECURSIVE RulesOf(_)
RulesOf(ids) ==
    IF ids = <<>> THEN <<>>
    ELSE CitableRules(StoredDocs[Head(ids)]) \o RulesOf(Tail(ids))

RECURSIVE RuleCount(_)
RuleCount(ids) ==
    IF ids = <<>> THEN 0
    ELSE (IF "rules" \in DOMAIN StoredDocs[Head(ids)] THEN Len(StoredDocs[Head(ids)].rules) ELSE 0)
            + RuleCount(Tail(ids))

\* the distinct entries of ids, each at the place of its first occurrence
RECURSIVE Distinct(_)
Distinct(ids) ==
    IF ids = <<>> THEN <<>>
    ELSE LET front == Distinct(SubSeq(ids, 1, Len(ids) - 1))
             x == ids[Len(ids)]
         IN  IF \E i \in 1..Len(front) : front[i] = x THEN front ELSE Append(front, x)

\* C2 as stated: the card's rules are the concatenation of the documents' rules
\* over every entry of context_ids, repeated ids included
C2_RulesPerEntry ==
    Ran("compose") =>
        /\ context_card.rules = RulesOf(request.context_ids)
        /\ Len(context_card.rules) = RuleCount(request.context_ids)

\* C2 amended: the card's rules are the concatenation of the documents' rules
\* over the distinct entries of context_ids in order of first occurrence, each
\* document in its own order, with no deduplication of rule ids
C2_RulesPerDistinctId ==
    Ran("compose") =>
        /\ context_card.rules = RulesOf(Distinct(request.context_ids))
        /\ Len(context_card.rules) = RuleCount(Distinct(request.context_ids))

\* C2 witness: documents A and B both define R-1 and both entries are in the card
C2_Witness ==
    /\ Ran("compose")
    /\ request.context_ids = <<"B", "A", "B">>
    /\ Len(context_card.rules) = 4
    /\ context_card.rules[1].id = "R-1"
    /\ context_card.rules[3].id = "R-1"
    /\ context_card.rules[1].text # context_card.rules[3].text

\* the brand_voice of the last entry of ids whose document has one
HasVoice(id) == "brand_voice" \in DOMAIN StoredDocs[id]
Voiced(ids) == {i \in 1..Len(ids) : HasVoice(ids[i])}
LastVoice(ids) == StoredDocs[ids[CHOOSE i \in Voiced(ids) : \A j \in Voiced(ids) : j <= i]].brand_voice

VoiceIs(ids) ==
    IF Voiced(ids) = {} THEN "brand_voice" \notin DOMAIN context_card
    ELSE "brand_voice" \in DOMAIN context_card /\ context_card.brand_voice = LastVoice(ids)

\* C3 as stated: brand_voice is that of the last entry of context_ids, in request
\* order, whose document has a brand_voice
C3_LastEntryWins == Ran("compose") => VoiceIs(request.context_ids)

\* C3 amended: brand_voice is that of the last of the distinct entries of
\* context_ids, ordered by first occurrence, whose document has a brand_voice;
\* there is none when no named document has one
C3_LastDistinctIdWins == Ran("compose") => VoiceIs(Distinct(request.context_ids))

\* C3 witness: A is listed first and again last, C in between; the card has C's
\* brand_voice
C3_Witness ==
    /\ Ran("compose")
    /\ request.context_ids = <<"A", "C", "A">>
    /\ context_card.brand_voice = "Y"

\* the request asked the model and the model answered with a candidate that did
\* not finish normally
PrematureReply == model_response.called /\ reply.candidates > 0 /\ reply.finish_reason # "STOP"

\* C4: when the first candidate's finish reason is not STOP, query_gemini returns
\* the PrematureStop failure with the finish reason and the safety ratings and
\* nothing of the candidate's text, and the request fails.
C4_PrematureStop ==
    (Ran("model") /\ PrematureReply) =>
        /\ ~model_response.raised
        /\ DOMAIN model_response.ret = {"error", "details", "safety_ratings"}
        /\ model_response.ret.error = Str("Model generation stopped prematurely.")
        /\ model_response.ret.details.parts[2] = reply.finish_reason
        /\ model_response.ret.safety_ratings = Str(reply.safety_ratings)
        /\ Done
        /\ ~Ran("validate")
        /\ response.status = 500
        /\ response.kind = "HTTPException"

\* C4 witness: a SAFETY stop whose text is a fenced, schema-complete JSON answer
C4_Witness ==
    /\ Done
    /\ reply.candidates = 1
    /\ reply.finish_reason = "SAFETY"
    /\ reply.text = Fenced(<<"V">>)
    /\ reply.val = Obj(FullOutput)
    /\ response.status = 500

\* the required fields of the AnalyzeResponse schema that a model output lacks
\* (diagnostics is the gateway's and the handler's to supply)
AttrLacks(v, f) == IsObj(v) /\ \E k \in DOMAIN v.m : IsObj(v.m[k]) /\ f \notin DOMAIN v.m[k].m
LacksRequired(v) ==
    \/ "answer" \notin DOMAIN v
    \/ "grounding" \notin DOMAIN v
    \/ "structured" \notin DOMAIN v
    \/ "grounding" \in DOMAIN v /\ IsObj(v.grounding) /\ "citations" \notin DOMAIN v.grounding.m
    \/ "grounding" \in DOMAIN v /\ IsObj(v.grounding) /\ "visual_refs" \notin DOMAIN v.grounding.m
    \/ "structured" \in DOMAIN v /\ IsObj(v.structured) /\ "attributes" \notin DOMAIN v.structured.m
    \/ "structured" \in DOMAIN v /\ IsObj(v.structured) /\ "compliance" \notin DOMAIN v.structured.m
    \/ /\ "structured" \in DOMAIN v /\ IsObj(v.structured) /\ "attributes" \in DOMAIN v.structured.m
       /\ (AttrLacks(v.structured.m.attributes, "value") \/ AttrLacks(v.structured.m.attributes, "source"))

\* C5: a model output that passed the gateway and lacks a required field ends
\* the request as a schema violation with no AnalyzeResponse; a response that
\* is returned has every required field as the model gave it, none defaulted.
C5_MissingFieldRejected ==
    (Done /\ Ran("validate")) =>
        /\ LacksRequired(reply.val.m) =>
              /\ response.status = 500
              /\ response.kind = "HTTPException"
              /\ failed_at = Len(trace)
              /\ DOMAIN response.body = {"detail"}
        /\ response.status = 200 =>
              /\ ~LacksRequired(reply.val.m)
              /\ response.body.answer = reply.val.m.answer
              /\ response.body.grounding = reply.val.m.grounding
              /\ response.body.structured.m.compliance = reply.val.m.structured.m.compliance
              /\ response.body.structured.m.attributes = reply.val.m.structured.m.attributes

\* C5 witness: the model output without structured.compliance was rejected
C5_Witness ==
    /\ Done
    /\ Ran("validate")
    /\ reply.val = Obj(SetItem(FullOutput, "structured", Obj(Without(FullStructured, "compliance"))))
    /\ response.status = 500

\* the reply's text reaches the extraction step of query_gemini
ReachesExtraction(rep) == rep.candidates > 0 /\ rep.finish_reason = "STOP" /\ ~IsBlank(rep.text)

Returns == pc = "returned"

\* C6 as stated: for a text that reaches the extraction step query_gemini never
\* raises; it returns a parsed mapping that carries diagnostics.model or the
\* MalformedJSON failure with the parser error and the raw text.
C6_TwoOutcomes ==
    (Returns /\ ReachesExtraction(reply)) =>
        /\ ~model_response.raised
        /\ \/ /\ "diagnostics" \in DOMAIN model_response.ret
              /\ model_response.ret.diagnostics = Obj([model |-> Str(model_name)])
           \/ /\ DOMAIN model_response.ret = {"error", "details", "raw_text"}
              /\ model_response.ret.error = Str("Failed to parse model response.")
              /\ model_response.ret.raw_text.toks = reply.text

\* the diagnostics.tokens the model output itself carried, if any
ModelCarriedTokens ==
    /\ "diagnostics" \in DOMAIN reply.val.m
    /\ IsObj(reply.val.m.diagnostics)
    /\ "tokens" \in DOMAIN reply.val.m.diagnostics.m

\* C7 as stated: in a successful response diagnostics.model is the model
\* identifier, diagnostics.latency the measured time, diagnostics.tokens 0 when
\* the model output carried none and the carried value when it did, and the
\* other entries are the model's own.
C7_DiagnosticsOnlyAdded ==
    (Done /\ response.status = 200) =>
        /\ response.body.diagnostics.m.model = Str(model_name)
        /\ response.body.diagnostics.m.latency \in {Num(Round2(ms)) : ms \in Latencies}
        /\ response.body.diagnostics.m.tokens =
              IF ModelCarriedTokens THEN reply.val.m.diagnostics.m.tokens ELSE Num(0)
        /\ \A k \in {"answer", "grounding", "structured"} : response.body[k] = reply.val.m[k]

\* the interior of the first json-tagged fenced block of a text: from the first
\* opening ```json\n to the first closing \n``` after it
HasJsonBlock(tx) ==
    \E i \in 1..Len(tx) : OpensAt(tx, i) /\ \E j \in (i + 2)..Len(tx) : ClosesAt(tx, j)
FirstOpen(tx) ==
    CHOOSE i \in 1..Len(tx) :
        /\ OpensAt(tx, i) /\ \E j \in (i + 2)..Len(tx) : ClosesAt(tx, j)
        /\ \A b \in 1..(i - 1) : ~(OpensAt(tx, b) /\ \E j \in (b + 2)..Len(tx) : ClosesAt(tx, j))
FirstClose(tx, i) ==
    CHOOSE j \in (i + 2)..Len(tx) : ClosesAt(tx, j) /\ \A b \in (i + 2)..(j - 1) : ~ClosesAt(tx, b)
BlockInterior(tx) == SubSeq(tx, FirstOpen(tx) + 2, FirstClose(tx, FirstOpen(tx)) - 1)

\* what the claim has query_gemini parse
TextToParse(tx) == IF HasJsonBlock(tx) THEN BlockInterior(tx) ELSE tx

\* the text is a JSON object text wrapped in a json-tagged fence
IsFencedObject(rep) == rep.text = Fenced(<<"V">>) /\ IsObj(rep.val)

\* C8 as stated: the result for a fenced JSON object text equals the result for
\* the object text alone, and the text parsed is the interior of the json-tagged
\* fenced block when there is one and the whole text otherwise.
C8_FenceInsensitive ==
    (Returns /\ ReachesExtraction(reply)) =>
        /\ IsFencedObject(reply) =>
              model_response = query_gemini(image_gcs_uri, [reply EXCEPT !.text = <<"V">>])
        /\ IsObj(reply.val) =>
              /\ ~model_response.raised
              /\ IF json_loads(TextToParse(reply.text), reply.val).raised
                 THEN /\ DOMAIN model_response.ret = {"error", "details", "raw_text"}
                      /\ model_response.ret.error = Str("Failed to parse model response.")
                 ELSE model_response.ret =
                          SetItem(reply.val.m, "diagnostics", Obj([model |-> Str(model_name)]))

\* C9 as stated: a product spec whose image reference is absent, empty or null
\* ends the request at the image check, before any context document is
\* fetched and before the model is called.
C9_MissingImageFailsFirst ==
    (Ran("image") /\ NoImageReference) =>
        /\ Done
        /\ trace = <<"catalog", "sku", "image">>
        /\ failed_at = 3
        /\ fetched = <<>>
        /\ calls = 0
        /\ response.status # 200

StageRank(stage) ==
    CASE stage = "catalog" -> 1
      [] stage = "sku" -> 2
      [] stage = "image" -> 3
      [] stage = "fetch" -> 4
      [] stage = "compose" -> 5
      [] stage = "model" -> 6
      [] stage = "validate" -> 7

\* consecutive stages follow the order, the fetches repeating once per entry of
\* context_ids (and none when it is empty)
InOrder(tr) ==
    /\ tr # <<>> => tr[1] = "catalog"
    /\ \A i \in 1..(Len(tr) - 1) :
          \/ StageRank(tr[i + 1]) = StageRank(tr[i]) + 1
          \/ tr[i] = "fetch" /\ tr[i + 1] = "fetch"
          \/ tr[i] = "image" /\ tr[i + 1] = "compose" /\ request.context_ids = <<>>

Count(tr, stage) == Cardinality({i \in 1..Len(tr) : tr[i] = stage})

\* C10: the stages run in the order catalog, SKU, image check, context fetches,
\* compose, model, validate; the stage that fails is the last to run; the model
\* is called at most once, and only after every earlier stage succeeded;
\* validation runs only on what the gateway returned without failure.
C10_FailFast ==
    /\ InOrder(trace)
    /\ failed_at > 0 => (Done /\ failed_at = Len(trace))
    /\ calls <= 1
    /\ Count(trace, "model") <= 1
    /\ Count(trace, "fetch") = Len(fetched)
    /\ fetched = SubSeq(request.context_ids, 1, Len(fetched))
    /\ calls = 1 =>
          /\ SubSeq(trace, 1, 3) = <<"catalog", "sku", "image">>
          /\ fetched = request.context_ids
          /\ Ran("compose")
          /\ ~(CatalogUnavailable \/ SkuAbsent \/ ContextNotFound)
          /\ (failed_at > 0 => trace[failed_at] \in {"model", "validate"})
    /\ Ran("validate") =>
          /\ calls = 1
          /\ ~model_response.raised
          /\ "error" \notin DOMAIN model_response.ret

\* C10 witness: a context fetch failed after one that succeeded, and nothing
\* ran after it
C10_Witness ==
    /\ Done
    /\ request.context_ids = <<"A", "missing", "B">>
    /\ trace = <<"catalog", "sku", "image", "fetch", "fetch">>
    /\ failed_at = 5
    /\ calls = 0

\* the sources the prompt's output format allows for an attribute
AllowedSources == {Str("image"), Str("spec")}

\* some attribute entry of a structured.attributes mapping has a source that is
\* a string other than image and spec
HasForeignSource(attrs) ==
    \E k \in DOMAIN attrs.m :
        /\ IsObj(attrs.m[k])
        /\ "source" \in DOMAIN attrs.m[k].m
        /\ IsStr(attrs.m[k].m.source)
        /\ attrs.m[k].m.source \notin AllowedSources

ModelGaveForeignSource ==
    /\ IsObj(reply.val)
    /\ "structured" \in DOMAIN reply.val.m
    /\ IsObj(reply.val.m.structured)
    /\ "attributes" \in DOMAIN reply.val.m.structured.m
    /\ IsObj(reply.val.m.structured.m.attributes)
    /\ HasForeignSource(reply.val.m.structured.m.attributes)

\* C11 as stated: every attribute of a successful response has the source image
\* or spec, and a model output with any other source is rejected as a schema
\* violation and yields no response.
C11_SourceIsImageOrSpec ==
    Done =>
        /\ response.status = 200 =>
              \A k \in DOMAIN response.body.structured.m.attributes.m :
                  response.body.structured.m.attributes.m[k].m.source \in AllowedSources
        /\ (Ran("validate") /\ ModelGaveForeignSource) =>
              /\ response.status = 500
              /\ response.kind = "HTTPException"

====
